---- MODULE Spec2Model ----
(***************************************************************************)
(* Crawl-state tracker and fetch orchestrator of the crawler prototype:    *)
(* WebCrawlerDB (data_manager.py), WebService.crawl_page_url               *)
(* (web_service.py) and the URL helpers (utils.py).                        *)
(*                                                                         *)
(* Every store method opens its own Session: a SELECT and the later        *)
(* INSERT/UPDATE + commit are separate steps, so calls of different        *)
(* clients interleave between them.  Each client runs one call at a time   *)
(* on a stack of frames (crawl_page_url -> add_page -> add_domain).        *)
(***************************************************************************)
EXTENDS Integers, Sequences, FiniteSets, TLC

VARIABLES
    domains,        \* rows of table "domains"
    pages,          \* rows of table "pages"
    crawl_history,  \* rows of table "crawl_history"
    clock,          \* the wall clock read by func.now() / datetime.now()
    stack,          \* stack[p]: call frames of client p, innermost last
    last,           \* how the most recent top-level call to end ended
    fetches,        \* fetches[u]: number of firecrawl.scrape invocations for u
    overlaps,       \* number of calls begun while another call was running
    calls,          \* number of direct calls of store methods begun (StoreSpec)
    ingredient      \* rows of table "ingredient" of the Ingredient Service

vars == <<domains, pages, crawl_history, clock, stack, last, fetches, overlaps, calls, ingredient>>
store == <<domains, pages, crawl_history>>
crawler == <<store, clock, fetches, calls>>

----------------------------------------------------------------------------
(* Bounds *)

NumClients == 2
MaxClock == 1
MaxHistory == 2
MaxOverlaps == 1
MaxCalls == 3
MaxPage == 3

\* per_page of get_all_domains when the caller gives none
DefaultPerPage == 20

Clients == 1..NumClients

----------------------------------------------------------------------------
(* Values *)

None == "None"

QUEUED == "queued"
CRAWLING == "crawling"
COMPLETED == "completed"
FAILED == "failed"
CrawlStatus == {QUEUED, CRAWLING, COMPLETED, FAILED}

\* URLs are character sequences, parsed as urllib does.
UrlAX == <<"s", ":", "/", "/", "a", "/", "x">>
UrlAY == <<"s", ":", "/", "/", "a", "/", "y">>
UrlAPortY == <<"s", ":", "/", "/", "a", ":", "8", "/", "y">>
UrlBX == <<"s", ":", "/", "/", "b", "/", "x">>
UrlNoScheme == <<"/", "/", "a", "/", "x">>
UrlNoHost == <<"s", ":", "/", "x">>
UrlBare == <<"a", "x">>

ValidUrls == {UrlAX, UrlAY, UrlAPortY, UrlBX}
MalformedUrls == {UrlNoScheme, UrlNoHost, UrlBare}
Urls == ValidUrls \cup MalformedUrls

\* The URLs requested where calls overlap: two pages of one site.
SiteUrls == {UrlAX, UrlAY}
\* The URLs requested where sites are told apart: one host named with and
\* without a port, and a second host.
HostUrls == {UrlAX, UrlAPortY, UrlBX}

DomainNames == {<<"a">>, <<"b">>}

\* What firecrawl.scrape can hand back as crawl_result.markdown.
Markdowns == {"# Title", "", None}
\* Exception classes firecrawl.scrape can raise.
ScrapeErrors == {"ValueError", "ConnectionError"}

----------------------------------------------------------------------------
(* utils.py *)

Letters == {"s", "a", "b", "x", "y"}
SchemeChars == Letters \cup {"8"}

\* str.find(c, start): first index >= start holding c, 0 when there is none
Find(s, c, start) ==
    LET hits == {i \in start..Len(s) : s[i] = c}
    IN IF hits = {} THEN 0 ELSE CHOOSE i \in hits : \A j \in hits : i <= j

\* urllib.parse.urlparse on the characters used here: the scheme is the
\* text before the first ":" when it starts with a letter and holds scheme
\* characters only; the netloc follows "//" and ends at the next "/".
urlparse(url) ==
    LET i == Find(url, ":", 1)
        hasScheme == /\ i > 1
                     /\ url[1] \in Letters
                     /\ \A k \in 1..(i - 1) : url[k] \in SchemeChars
        scheme == IF hasScheme THEN SubSeq(url, 1, i - 1) ELSE <<>>
        rest == IF hasScheme THEN SubSeq(url, i + 1, Len(url)) ELSE url
        hasNetloc == Len(rest) >= 2 /\ SubSeq(rest, 1, 2) = <<"/", "/">>
        d == Find(rest, "/", 3)
        delim == IF d = 0 THEN Len(rest) + 1 ELSE d
    IN [scheme |-> scheme,
        netloc |-> IF hasNetloc THEN SubSeq(rest, 3, delim - 1) ELSE <<>>,
        path |-> IF hasNetloc THEN SubSeq(rest, delim, Len(rest)) ELSE rest]

\* Faulty variant: any([...]) in place of all([...]).
is_valid_url_any(url) ==
    LET result == urlparse(url)
    IN result.scheme # <<>> \/ result.netloc # <<>>

is_valid_url(url) ==
    LET result == urlparse(url)
    IN result.scheme # <<>> /\ result.netloc # <<>>

get_url_domain(url) == urlparse(url).netloc

----------------------------------------------------------------------------
(* Tables *)

\* INTEGER PRIMARY KEY of a table without deletes: max(id) + 1
NextId(rows) == Cardinality(rows) + 1

NewDomain(name) ==
    [id |-> NextId(domains), domain |-> name, created_at |-> clock]

NewPage(url, domain_id, status) ==
    [id |-> NextId(pages), url |-> url, domain_id |-> domain_id,
     status |-> status, content_markdown |-> None, title |-> None,
     created_at |-> clock, updated_at |-> clock]

NewCrawlHistory(page_id, status, response_code, error_message, content_size, crawl_duration_ms) ==
    [id |-> NextId(crawl_history), page_id |-> page_id, status |-> status,
     crawled_at |-> clock, response_code |-> response_code,
     error_message |-> error_message, content_size |-> content_size,
     crawl_duration_ms |-> crawl_duration_ms]

\* select(Domain).where(Domain.domain == domain): {} is None
SelectDomain(name) == {d \in domains : d.domain = name}
\* select(Page).where(Page.url == url)
SelectPage(url) == {pg \in pages : pg.url = url}

get_page_details(url) == SelectPage(url)

domain_exists(name) == SelectDomain(name) # {}

----------------------------------------------------------------------------
(* Call frames *)

\* acc holds, in order, the results of the queries a read method has made.
\* A frame holds the method, its position, its arguments and locals, and
\* two records of what happened to a crawl_page_url call: gate (line 60 found
\* the page registered) and scrape (how firecrawl.scrape ended).
Frame(fn, pc) ==
    [fn |-> fn, pc |-> pc, url |-> <<>>, domain |-> <<>>, status |-> None,
     markdown |-> None, title |-> None, row |-> {}, domain_obj |-> {},
     e |-> None, gate |-> FALSE, scrape |-> "none",
     page |-> 0, per_page |-> 0, acc |-> <<>>, ingredient_in |-> None]

Top(p) == stack[p][Len(stack[p])]
Running(p, fn, pc) ==
    /\ stack[p] # <<>>
    /\ Top(p).fn = fn
    /\ Top(p).pc = pc
Idle(p) == stack[p] = <<>>
Quiescent == \A p \in Clients : Idle(p)

\* Client p may begin a call; calls that begin while another call is running
\* are counted and bounded.
Admit(p) ==
    /\ Idle(p)
    /\ Quiescent \/ overlaps < MaxOverlaps
    /\ overlaps' = IF Quiescent THEN overlaps ELSE overlaps + 1

\* What the caller of a top-level call gets: the value returned or the
\* exception raised; val holds the row(s) returned, {} for None.
\* call is the frame of the call as it ended, without the rows it had loaded.
Ended(f) == [f EXCEPT !.row = {}, !.domain_obj = {}, !.acc = <<>>]
NoOutcome == [kind |-> "none", call |-> Frame(None, None), exc |-> None, val |-> {}]
Returned(f, val) == [kind |-> "return", call |-> Ended(f), exc |-> None, val |-> val]
Raised(f, exc) == [kind |-> "raise", call |-> Ended(f), exc |-> exc, val |-> {}]

TypeOK ==
    /\ clock \in 0..MaxClock
    /\ \A d \in domains : d.id \in 1..Cardinality(domains)
    /\ \A pg \in pages : pg.status \in CrawlStatus
    /\ \A p \in Clients : Len(stack[p]) <= 3

Init ==
    /\ domains = {}
    /\ pages = {}
    /\ crawl_history = {}
    /\ clock = 0
    /\ stack = [p \in Clients |-> <<>>]
    /\ last = NoOutcome
    /\ fetches = [u \in Urls |-> 0]
    /\ overlaps = 0
    /\ calls = 0
    /\ ingredient = {}

Tick ==
    /\ clock < MaxClock
    /\ clock' = clock + 1
    /\ UNCHANGED <<store, stack, last, fetches, overlaps, calls, ingredient>>

----------------------------------------------------------------------------
(* Calls, returns and exceptions *)

add_domain_frame(domain) == [Frame("add_domain", "L125") EXCEPT !.domain = domain]

add_page_frame(url, domain, status) ==
    [Frame("add_page", "L141") EXCEPT
        !.url = url, !.domain = domain, !.status = status]

update_page_status_frame(url, status) ==
    [Frame("update_page_status", "L156") EXCEPT !.url = url, !.status = status]

save_page_content_frame(url, markdown, title) ==
    [Frame("save_page_content", "L168") EXCEPT
        !.url = url, !.markdown = markdown, !.title = title]

\* A frame of crawl_page_url standing in the call of one of its lines.
AtL65(f) == <<[f EXCEPT !.pc = "L65"], add_page_frame(f.url, f.domain, QUEUED)>>
AtL82(f) == <<[f EXCEPT !.pc = "L82"], update_page_status_frame(f.url, FAILED)>>
AtL85(f) == <<[f EXCEPT !.pc = "L85"], save_page_content_frame(f.url, f.markdown, None)>>
AtL87(f) == <<[f EXCEPT !.pc = "L87"], update_page_status_frame(f.url, FAILED)>>

\* The caller's frames once the call it is waiting in has returned val: the
\* caller moves to its next statement, and into the call that statement makes.
Resume(f, val) ==
    CASE f.fn = "crawl_page_url" /\ f.pc = "L63" -> AtL65(f)
      [] f.fn = "crawl_page_url" /\ f.pc = "L65" -> <<[f EXCEPT !.pc = "L68"]>>
      [] f.fn = "crawl_page_url" /\ f.pc = "L82" -> <<[f EXCEPT !.pc = "L83"]>>
      [] f.fn = "crawl_page_url" /\ f.pc = "L85" -> <<[f EXCEPT !.pc = "L90"]>>
      [] f.fn = "crawl_page_url" /\ f.pc = "L87" -> <<[f EXCEPT !.pc = "L88"]>>
      [] f.fn = "add_page" /\ f.pc = "L146" ->
            <<[f EXCEPT !.pc = "L147", !.domain_obj = val]>>

Call(p, callerPc, callee) ==
    LET s == stack[p]
        n == Len(s)
    IN stack' = [stack EXCEPT ![p] =
                    Append([s EXCEPT ![n] = [s[n] EXCEPT !.pc = callerPc]], callee)]

Goto(p, pc) ==
    LET n == Len(stack[p])
    IN stack' = [stack EXCEPT ![p][n] = [@ EXCEPT !.pc = pc]]

Return(p, val) ==
    LET s == stack[p]
        n == Len(s)
    IN IF n = 1
       THEN /\ stack' = [stack EXCEPT ![p] = <<>>]
            /\ last' = Returned(s[1], val)
       ELSE /\ stack' = [stack EXCEPT ![p] =
                            SubSeq(s, 1, n - 2) \o Resume(s[n - 1], val)]
            /\ UNCHANGED last

\* Exception classes that are ValueError or derive from it (pydantic's
\* ValidationError does; sqlalchemy's IntegrityError, RuntimeError and the
\* transport errors do not).
ValueErrors == {"ValueError", "ValidationError"}

\* Statements of crawl_page_url inside its try block (lines 67-85).
TryPcs == {"L68", "L68_wait", "L82", "L83", "L85"}

\* An exception leaves every store method (none has a handler); in
\* crawl_page_url `except ValueError` (line 86) takes it when it was raised
\* inside the try block, anything else reaches the caller.
Raise(p, exc) ==
    LET bottom == stack[p][1]
        f == IF bottom.pc = "L68_wait"
             THEN [bottom EXCEPT !.scrape = "raised"] ELSE bottom
    IN IF /\ f.fn = "crawl_page_url"
          /\ f.pc \in TryPcs
          /\ exc \in ValueErrors
       THEN /\ stack' = [stack EXCEPT ![p] = AtL87([f EXCEPT !.e = exc])]
            /\ UNCHANGED last
       ELSE /\ stack' = [stack EXCEPT ![p] = <<>>]
            /\ last' = Raised(f, exc)

----------------------------------------------------------------------------
(* data_manager.py: WebCrawlerDB *)

\* add_domain, lines 125-128
add_domain_select(p) ==
    /\ Running(p, "add_domain", "L125")
    /\ LET existing == SelectDomain(Top(p).domain)
       IN IF existing # {}
          THEN Return(p, existing)
          ELSE Goto(p, "L130") /\ UNCHANGED last
    /\ UNCHANGED <<store, clock, fetches, overlaps, calls, ingredient>>

\* add_domain, lines 130-134: INSERT under the UNIQUE index on domain
add_domain_insert(p) ==
    /\ Running(p, "add_domain", "L130")
    /\ IF SelectDomain(Top(p).domain) # {}
       THEN Raise(p, "IntegrityError") /\ UNCHANGED domains
       ELSE LET new_domain == NewDomain(Top(p).domain)
            IN domains' = domains \cup {new_domain} /\ Return(p, {new_domain})
    /\ UNCHANGED <<pages, crawl_history, clock, fetches, overlaps, calls, ingredient>>

\* Faulty variant: the existing page is put back in the queue before it is returned.
add_page_select_requeue(p) ==
    /\ Running(p, "add_page", "L141")
    /\ LET existing == SelectPage(Top(p).url)
       IN IF existing # {}
          THEN /\ pages' = {IF pg \in existing
                               THEN [pg EXCEPT !.status = Top(p).status]
                               ELSE pg : pg \in pages}
               /\ Return(p, existing)
          ELSE /\ Call(p, "L146", add_domain_frame(Top(p).domain))
               /\ UNCHANGED <<last, pages>>
    /\ UNCHANGED <<domains, crawl_history, clock, fetches, overlaps, calls, ingredient>>

\* Faulty variant: the domain is created before the page is looked up.
add_page_select_domain_first(p) ==
    /\ Running(p, "add_page", "L141")
    /\ LET existing == SelectPage(Top(p).url)
       IN IF existing # {}
          THEN /\ domains' = IF SelectDomain(Top(p).domain) # {} THEN domains
                             ELSE domains \cup {NewDomain(Top(p).domain)}
               /\ Return(p, existing)
          ELSE /\ Call(p, "L146", add_domain_frame(Top(p).domain))
               /\ UNCHANGED <<last, domains>>
    /\ UNCHANGED <<pages, crawl_history, clock, fetches, overlaps, calls, ingredient>>

\* add_page, lines 141-146
add_page_select(p) ==
    /\ Running(p, "add_page", "L141")
    /\ LET existing == SelectPage(Top(p).url)
       IN IF existing # {}
          THEN Return(p, existing)
          ELSE Call(p, "L146", add_domain_frame(Top(p).domain)) /\ UNCHANGED last
    /\ UNCHANGED <<store, clock, fetches, overlaps, calls, ingredient>>

\* add_page, lines 147-151: INSERT under the UNIQUE index on url
add_page_insert(p) ==
    /\ Running(p, "add_page", "L147")
    /\ IF SelectPage(Top(p).url) # {}
       THEN Raise(p, "IntegrityError") /\ UNCHANGED pages
       ELSE LET domain_obj == CHOOSE d \in Top(p).domain_obj : TRUE
                new_page == NewPage(Top(p).url, domain_obj.id, Top(p).status)
            IN pages' = pages \cup {new_page} /\ Return(p, {new_page})
    /\ UNCHANGED <<domains, crawl_history, clock, fetches, overlaps, calls, ingredient>>

\* The UPDATE the Session flushes for a loaded row: it sets the attributes
\* whose new value differs from the loaded one, on the row with that id.
FlushUpdate(loaded, changes) ==
    {IF pg.id = loaded.id
        THEN [c \in DOMAIN pg |->
                IF c \in DOMAIN changes /\ changes[c] # loaded[c]
                THEN changes[c] ELSE pg[c]]
        ELSE pg : pg \in pages}

\* Faulty variant: a URL without a page is an error.
update_page_status_select_strict(p) ==
    /\ Running(p, "update_page_status", "L156")
    /\ LET page == SelectPage(Top(p).url)
       IN IF page # {}
          THEN /\ stack' = [stack EXCEPT ![p][Len(stack[p])] =
                                [@ EXCEPT !.pc = "L159", !.row = page]]
               /\ UNCHANGED last
          ELSE Raise(p, "LookupError")
    /\ UNCHANGED <<store, clock, fetches, overlaps, calls, ingredient>>

\* update_page_status, lines 156-158
update_page_status_select(p) ==
    /\ Running(p, "update_page_status", "L156")
    /\ LET page == SelectPage(Top(p).url)
       IN IF page # {}
          THEN /\ stack' = [stack EXCEPT ![p][Len(stack[p])] =
                                [@ EXCEPT !.pc = "L159", !.row = page]]
               /\ UNCHANGED last
          ELSE Return(p, {})
    /\ UNCHANGED <<store, clock, fetches, overlaps, calls, ingredient>>

\* Faulty variant: the new status is never flushed.
update_page_status_commit_lost(p) ==
    /\ Running(p, "update_page_status", "L159")
    /\ Return(p, {})
    /\ UNCHANGED <<store, clock, fetches, overlaps, calls, ingredient>>

\* update_page_status, lines 159-161
update_page_status_commit(p) ==
    /\ Running(p, "update_page_status", "L159")
    /\ LET page == CHOOSE pg \in Top(p).row : TRUE
       IN pages' = FlushUpdate(page, [status |-> Top(p).status,
                                      updated_at |-> clock])
    /\ Return(p, {})
    /\ UNCHANGED <<domains, crawl_history, clock, fetches, overlaps, calls, ingredient>>

\* save_page_content, lines 168-170
save_page_content_select(p) ==
    /\ Running(p, "save_page_content", "L168")
    /\ LET page == SelectPage(Top(p).url)
       IN IF page # {}
          THEN /\ stack' = [stack EXCEPT ![p][Len(stack[p])] =
                                [@ EXCEPT !.pc = "L171", !.row = page]]
               /\ UNCHANGED last
          ELSE Return(p, {})
    /\ UNCHANGED <<store, clock, fetches, overlaps, calls, ingredient>>

\* Faulty variant: the content is saved without the status.
save_page_content_commit_nostatus(p) ==
    /\ Running(p, "save_page_content", "L171")
    /\ LET page == CHOOSE pg \in Top(p).row : TRUE
       IN pages' = FlushUpdate(page, [content_markdown |-> Top(p).markdown,
                                      title |-> Top(p).title,
                                      updated_at |-> clock])
    /\ Return(p, {})
    /\ UNCHANGED <<domains, crawl_history, clock, fetches, overlaps, calls, ingredient>>

\* save_page_content, lines 171-175
save_page_content_commit(p) ==
    /\ Running(p, "save_page_content", "L171")
    /\ LET page == CHOOSE pg \in Top(p).row : TRUE
       IN pages' = FlushUpdate(page, [content_markdown |-> Top(p).markdown,
                                      title |-> Top(p).title,
                                      status |-> COMPLETED,
                                      updated_at |-> clock])
    /\ Return(p, {})
    /\ UNCHANGED <<domains, crawl_history, clock, fetches, overlaps, calls, ingredient>>

\* Faulty variant: the new row replaces the rows of its page.
add_crawl_history_replace(page_id, status, response_code, error_message, content_size, crawl_duration_ms) ==
    crawl_history' = {h \in crawl_history : h.page_id # page_id} \cup
        {NewCrawlHistory(page_id, status, response_code, error_message,
                         content_size, crawl_duration_ms)}

\* add_crawl_history, lines 187-197: one INSERT
add_crawl_history(page_id, status, response_code, error_message, content_size, crawl_duration_ms) ==
    crawl_history' = crawl_history \cup
        {NewCrawlHistory(page_id, status, response_code, error_message,
                         content_size, crawl_duration_ms)}

\* ORDER BY col DESC, and sorted(key=col, reverse=True) over rows loaded in
\* no stated order: every arrangement of the rows with col non-increasing
\* (rows with equal col come in any order).
OrderByDesc(rows, col) ==
    LET n == Cardinality(rows)
    IN {s \in [1..n -> rows] :
            /\ \A i, j \in 1..n : i # j => s[i] # s[j]
            /\ \A i \in 1..n : i < n => s[i][col] >= s[i + 1][col]}

\* OFFSET offset LIMIT limit
OffsetLimit(s, offset, limit) ==
    LET first == offset + 1
        end == IF offset + limit < Len(s) THEN offset + limit ELSE Len(s)
    IN IF first > end THEN <<>> ELSE [i \in 1..(end - offset) |-> s[offset + i]]

\* math.ceil(a / b) for a >= 0, b > 0
ceil(a, b) == (a + b - 1) \div b

\* The pysqlite Session opens no transaction for a SELECT: each query of a
\* read method reads the rows committed when it runs.
Query(p, pc, value) ==
    stack' = [stack EXCEPT ![p][Len(stack[p])] =
                [@ EXCEPT !.pc = pc, !.acc = Append(@, value)]]

CountStatus(status) == Cardinality({pg \in pages : pg.status = status})

Statistics(acc) ==
    [total_pages |-> acc[1], queued |-> acc[2], crawling |-> acc[3],
     completed |-> acc[4], failed |-> acc[5], total_domains |-> acc[6]]

\* get_stats, line 234
get_stats_total_pages(p) ==
    /\ Running(p, "get_stats", "L234")
    /\ Query(p, "L235", Cardinality(pages))
    /\ UNCHANGED <<store, clock, last, fetches, overlaps, calls, ingredient>>

\* get_stats, lines 235-239
get_stats_queued(p) ==
    /\ Running(p, "get_stats", "L235")
    /\ Query(p, "L240", CountStatus(QUEUED))
    /\ UNCHANGED <<store, clock, last, fetches, overlaps, calls, ingredient>>

\* get_stats, lines 240-244
get_stats_crawling(p) ==
    /\ Running(p, "get_stats", "L240")
    /\ Query(p, "L245", CountStatus(CRAWLING))
    /\ UNCHANGED <<store, clock, last, fetches, overlaps, calls, ingredient>>

\* get_stats, lines 245-249
get_stats_completed(p) ==
    /\ Running(p, "get_stats", "L245")
    /\ Query(p, "L250", CountStatus(COMPLETED))
    /\ UNCHANGED <<store, clock, last, fetches, overlaps, calls, ingredient>>

\* get_stats, lines 250-254
get_stats_failed(p) ==
    /\ Running(p, "get_stats", "L250")
    /\ Query(p, "L255", CountStatus(FAILED))
    /\ UNCHANGED <<store, clock, last, fetches, overlaps, calls, ingredient>>

\* Faulty variant: total_domains counts the pages.
get_stats_total_domains_pages(p) ==
    /\ Running(p, "get_stats", "L255")
    /\ Return(p, Statistics(Append(Top(p).acc, Cardinality(pages))))
    /\ UNCHANGED <<store, clock, fetches, overlaps, calls, ingredient>>

\* get_stats, lines 255-264
get_stats_total_domains(p) ==
    /\ Running(p, "get_stats", "L255")
    /\ Return(p, Statistics(Append(Top(p).acc, Cardinality(domains))))
    /\ UNCHANGED <<store, clock, fetches, overlaps, calls, ingredient>>

\* get_all_domains, line 269
get_all_domains_count(p) ==
    /\ Running(p, "get_all_domains", "L269")
    /\ Query(p, "L272", Cardinality(domains))
    /\ UNCHANGED <<store, clock, last, fetches, overlaps, calls, ingredient>>

DomainList(page, per_page, total, total_pages, rows) ==
    [page |-> page, per_page |-> per_page, total |-> total,
     total_pages |-> total_pages, domains |-> rows]

\* Faulty variant: the offset is page * per_page.
get_all_domains_select_offset(p) ==
    /\ Running(p, "get_all_domains", "L272")
    /\ LET page == Top(p).page
           per_page == Top(p).per_page
           total == Top(p).acc[1]
           total_pages == IF per_page > 0 THEN ceil(total, per_page) ELSE 1
       IN \E ordered \in OrderByDesc(domains, "created_at") :
            Return(p, DomainList(page, per_page, total, total_pages,
                                 OffsetLimit(ordered, page * per_page, per_page)))
    /\ UNCHANGED <<store, clock, fetches, overlaps, calls, ingredient>>

\* get_all_domains, lines 270-285
get_all_domains_select(p) ==
    /\ Running(p, "get_all_domains", "L272")
    /\ LET page == Top(p).page
           per_page == Top(p).per_page
           total == Top(p).acc[1]
           total_pages == IF per_page > 0 THEN ceil(total, per_page) ELSE 1
       IN \E ordered \in OrderByDesc(domains, "created_at") :
            Return(p, DomainList(page, per_page, total, total_pages,
                                 OffsetLimit(ordered, (page - 1) * per_page, per_page)))
    /\ UNCHANGED <<store, clock, fetches, overlaps, calls, ingredient>>

\* get_crawl_history, lines 223-225 and 229
get_crawl_history_select(p) ==
    /\ Running(p, "get_crawl_history", "L223")
    /\ LET page == SelectPage(Top(p).url)
       IN IF page # {}
          THEN /\ stack' = [stack EXCEPT ![p][Len(stack[p])] =
                                [@ EXCEPT !.pc = "L226", !.row = page]]
               /\ UNCHANGED last
          ELSE Return(p, <<>>)
    /\ UNCHANGED <<store, clock, fetches, overlaps, calls, ingredient>>

\* Faulty variant: sorted without reverse=True.
get_crawl_history_sorted_ascending(p) ==
    /\ Running(p, "get_crawl_history", "L226")
    /\ LET page == CHOOSE pg \in Top(p).row : TRUE
           loaded == {h \in crawl_history : h.page_id = page.id}
       IN \E s \in OrderByDesc(loaded, "crawled_at") :
            Return(p, [i \in 1..Len(s) |-> s[Len(s) + 1 - i]])
    /\ UNCHANGED <<store, clock, fetches, overlaps, calls, ingredient>>

\* get_crawl_history, lines 226-228: page.crawl_history is loaded, then sorted
get_crawl_history_sorted(p) ==
    /\ Running(p, "get_crawl_history", "L226")
    /\ LET page == CHOOSE pg \in Top(p).row : TRUE
           loaded == {h \in crawl_history : h.page_id = page.id}
       IN \E s \in OrderByDesc(loaded, "crawled_at") : Return(p, s)
    /\ UNCHANGED <<store, clock, fetches, overlaps, calls, ingredient>>

----------------------------------------------------------------------------
(* web_service.py: WebService.crawl_page_url *)

crawl_page_url_frame(url) == [Frame("crawl_page_url", "L58") EXCEPT !.url = url]

\* lines 58-59
crawl_page_url_begin(p, url) ==
    /\ Admit(p)
    /\ IF ~is_valid_url(url)
       THEN /\ last' = Raised(crawl_page_url_frame(url), "ValueError")
            /\ UNCHANGED stack
       ELSE /\ stack' = [stack EXCEPT ![p] =
                            <<[crawl_page_url_frame(url) EXCEPT !.pc = "L60"]>>]
            /\ last' = NoOutcome
    /\ UNCHANGED <<store, clock, fetches, ingredient>>

\* Faulty variant: the lookup of line 60 is not used as a gate.
crawl_page_url_L60_nogate(p) ==
    /\ Running(p, "crawl_page_url", "L60")
    /\ stack' = [stack EXCEPT ![p] =
            <<[Top(p) EXCEPT !.pc = "L62", !.domain = get_url_domain(Top(p).url)]>>]
    /\ UNCHANGED <<store, clock, last, fetches, overlaps, calls, ingredient>>

\* line 60
crawl_page_url_L60(p) ==
    /\ Running(p, "crawl_page_url", "L60")
    /\ IF get_page_details(Top(p).url) = {}
       THEN stack' = [stack EXCEPT ![p] =
                <<[Top(p) EXCEPT !.pc = "L62", !.domain = get_url_domain(Top(p).url)]>>]
       ELSE stack' = [stack EXCEPT ![p] =
                <<[Top(p) EXCEPT !.pc = "L90", !.gate = TRUE]>>]
    /\ UNCHANGED <<store, clock, last, fetches, overlaps, calls, ingredient>>

\* lines 62-65
crawl_page_url_L62(p) ==
    /\ Running(p, "crawl_page_url", "L62")
    /\ IF ~domain_exists(Top(p).domain)
       THEN Call(p, "L63", add_domain_frame(Top(p).domain))
       ELSE stack' = [stack EXCEPT ![p] = AtL65(Top(p))]
    /\ UNCHANGED <<store, clock, last, fetches, overlaps, calls, ingredient>>

\* line 68: the request goes out to the backend
crawl_page_url_scrape(p) ==
    /\ Running(p, "crawl_page_url", "L68")
    /\ fetches' = [fetches EXCEPT ![Top(p).url] = @ + 1]
    /\ Goto(p, "L68_wait")
    /\ UNCHANGED <<store, clock, last, overlaps, calls, ingredient>>

is_crawl_failed(markdown) == markdown = None \/ Len(markdown) = 0

\* lines 68-85: the backend answers with a document
crawl_page_url_scraped(p, markdown) ==
    /\ Running(p, "crawl_page_url", "L68_wait")
    /\ LET f == [Top(p) EXCEPT !.markdown = markdown, !.scrape = "returned"]
       IN stack' = [stack EXCEPT ![p] =
                        IF is_crawl_failed(markdown) THEN AtL82(f) ELSE AtL85(f)]
    /\ UNCHANGED <<store, clock, last, fetches, overlaps, calls, ingredient>>

\* line 68: the backend call raises
crawl_page_url_scrape_raises(p, exc) ==
    /\ Running(p, "crawl_page_url", "L68_wait")
    /\ Raise(p, exc)
    /\ UNCHANGED <<store, clock, fetches, overlaps, calls, ingredient>>

\* line 83
crawl_page_url_L83(p) ==
    /\ Running(p, "crawl_page_url", "L83")
    /\ Raise(p, "RuntimeError")
    /\ UNCHANGED <<store, clock, fetches, overlaps, calls, ingredient>>

\* line 88
crawl_page_url_L88(p) ==
    /\ Running(p, "crawl_page_url", "L88")
    /\ Raise(p, Top(p).e)
    /\ UNCHANGED <<store, clock, fetches, overlaps, calls, ingredient>>

\* PageDTO.model_validate (lines 38-43): content_markdown must be a str
PageDTO(page) ==
    [content_markdown |-> page.content_markdown, updated_at |-> page.updated_at]

\* line 90
crawl_page_url_L90(p) ==
    /\ Running(p, "crawl_page_url", "L90")
    /\ LET page == get_page_details(Top(p).url)
       IN IF page = {} \/ \E pg \in page : pg.content_markdown = None
          THEN Raise(p, "ValidationError")
          ELSE Return(p, {PageDTO(pg) : pg \in page})
    /\ UNCHANGED <<store, clock, fetches, overlaps, calls, ingredient>>

----------------------------------------------------------------------------
(* Top-level calls of the store: web_scrapper.py calls add_domain with the  *)
(* text typed into the form; the other methods are the store's public API. *)

Begin(p, frame) ==
    /\ Admit(p)
    /\ stack' = [stack EXCEPT ![p] = <<frame>>]
    /\ last' = NoOutcome
    /\ UNCHANGED <<store, clock, fetches, ingredient>>

add_domain_begin(p, domain) == Begin(p, add_domain_frame(domain))

add_page_begin(p, url, domain) == Begin(p, add_page_frame(url, domain, QUEUED))

update_page_status_begin(p, url, status) ==
    Begin(p, update_page_status_frame(url, status))

save_page_content_begin(p, url, markdown, title) ==
    Begin(p, save_page_content_frame(url, markdown, title))

get_stats_begin(p) == Begin(p, Frame("get_stats", "L234"))

get_all_domains_begin(p, page, per_page) ==
    Begin(p, [Frame("get_all_domains", "L269") EXCEPT
                !.page = page, !.per_page = per_page])

\* web_service.py, lines 51-52: per_page takes its default
get_collected_domains(p, page) == get_all_domains_begin(p, page, DefaultPerPage)

get_crawl_history_begin(p, url) ==
    Begin(p, [Frame("get_crawl_history", "L223") EXCEPT !.url = url])

add_crawl_history_call(p, page_id, status) ==
    /\ Admit(p)
    /\ Cardinality(crawl_history) < MaxHistory
    /\ add_crawl_history(page_id, status, None, None, None, None)
    /\ last' = Returned(Frame("add_crawl_history", "L187"), {})
    /\ UNCHANGED <<domains, pages, clock, stack, fetches, ingredient>>

----------------------------------------------------------------------------
(* Ingredient Service: api.py, services/ingredient_crud.py,                  *)
(* models/ingredient.py.  Each request runs create_ingredient_api on a      *)
(* worker thread with a Session of its own.                                 *)

IngredientNames == {"salt", "rice"}
ShelfLives == {7, 30}
Countabilities == {"countable", "uncountable"}
TagIdLists == {<<>>, <<1>>}

\* rows of table "ingredient_tag"; no request writes it
ingredient_tag == {[ingredient_tag_id |-> 1, ingredient_tag_name |-> "spice"]}

IngredientIn ==
    [ingredient_name : IngredientNames, estimated_shelf_life : ShelfLives,
     countability : Countabilities, ingredienttag_ids : TagIdLists]

Ingredient(ingredient_in, tags) ==
    [ingredient_id |-> NextId(ingredient),
     ingredient_name |-> ingredient_in.ingredient_name,
     estimated_shelf_life |-> ingredient_in.estimated_shelf_life,
     countability |-> ingredient_in.countability,
     ingredienttags |-> tags]

\* api.py, lines 16-18
create_ingredient_api(p, ingredient_in) ==
    /\ Admit(p)
    /\ stack' = [stack EXCEPT ![p] =
            <<[Frame("create_ingredient_api", "L18") EXCEPT
                    !.ingredient_in = ingredient_in],
              [Frame("create_ingredient", "L19") EXCEPT
                    !.ingredient_in = ingredient_in]>>]
    /\ last' = NoOutcome
    /\ UNCHANGED <<crawler, ingredient>>

\* api.py, lines 17-21: an exception leaving create_ingredient is turned
\* into HTTPException(409) when it is a ValueError; any other goes on to the
\* framework.
create_ingredient_api_except(p, exc) ==
    /\ stack' = [stack EXCEPT ![p] = <<>>]
    /\ last' = Raised(stack[p][1],
                      IF exc \in ValueErrors THEN "HTTP_409_CONFLICT" ELSE exc)

\* ingredient_crud.py, lines 19-23
create_ingredient_existing(p) ==
    /\ Running(p, "create_ingredient", "L19")
    /\ LET name == Top(p).ingredient_in.ingredient_name
       IN IF \E i \in ingredient : i.ingredient_name = name
          THEN create_ingredient_api_except(p, "ValueError")
          ELSE Goto(p, "L30") /\ UNCHANGED last
    /\ UNCHANGED <<crawler, overlaps, ingredient>>

\* ingredient_crud.py, lines 25-32
create_ingredient_tags(p) ==
    /\ Running(p, "create_ingredient", "L30")
    /\ LET ids == Top(p).ingredient_in.ingredienttag_ids
       IN stack' = [stack EXCEPT ![p][Len(stack[p])] =
            [@ EXCEPT !.pc = "L33",
                      !.row = {t \in ingredient_tag :
                                 \E k \in 1..Len(ids) : ids[k] = t.ingredient_tag_id}]]
    /\ UNCHANGED <<crawler, last, overlaps, ingredient>>

\* ingredient_crud.py, lines 33-36: INSERT under the UNIQUE index on
\* ingredient_name, then api.py line 19
create_ingredient_commit(p) ==
    /\ Running(p, "create_ingredient", "L33")
    /\ LET name == Top(p).ingredient_in.ingredient_name
           new == Ingredient(Top(p).ingredient_in,
                             {t.ingredient_tag_id : t \in Top(p).row})
       IN IF \E i \in ingredient : i.ingredient_name = name
          THEN /\ create_ingredient_api_except(p, "IntegrityError")
               /\ UNCHANGED ingredient
          ELSE /\ ingredient' = ingredient \cup {new}
               /\ stack' = [stack EXCEPT ![p] = <<>>]
               /\ last' = Returned(stack[p][1], {new})
    /\ UNCHANGED <<crawler, overlaps>>

----------------------------------------------------------------------------
(* Specifications *)

\* One statement of a running store method.
StoreStep(p) ==
    \/ add_domain_select(p)
    \/ add_domain_insert(p)
    \/ add_page_select(p)
    \/ add_page_insert(p)
    \/ update_page_status_select(p)
    \/ update_page_status_commit(p)
    \/ save_page_content_select(p)
    \/ save_page_content_commit(p)

\* One statement of a running crawl_page_url.
CrawlStep(p) ==
    \/ crawl_page_url_L60(p)
    \/ crawl_page_url_L62(p)
    \/ crawl_page_url_scrape(p)
    \/ \E markdown \in Markdowns : crawl_page_url_scraped(p, markdown)
    \/ \E exc \in ScrapeErrors : crawl_page_url_scrape_raises(p, exc)
    \/ crawl_page_url_L83(p)
    \/ crawl_page_url_L88(p)
    \/ crawl_page_url_L90(p)

\* The service as its clients drive it: crawl requests and the form's
\* add_domain, each client on its own thread.
ServiceBegin(p) ==
    /\ \/ \E url \in SiteUrls \cup MalformedUrls : crawl_page_url_begin(p, url)
       \/ \E domain \in DomainNames : add_domain_begin(p, domain)
    /\ UNCHANGED calls

Next ==
    \/ Tick
    \/ \E p \in Clients : ServiceBegin(p)
    \/ \E p \in Clients : StoreStep(p)
    \/ \E p \in Clients : CrawlStep(p)

Spec == Init /\ [][Next]_vars

\* The same calls, one at a time: a call begins when no other is running.

SeqNext ==
    \/ Tick
    \/ \E p \in Clients : Quiescent /\ ServiceBegin(p)
    \/ \E p \in Clients : StoreStep(p)
    \/ \E p \in Clients : CrawlStep(p)

SeqSpec == Init /\ [][SeqNext]_vars

\* A call that has begun runs on: its thread is scheduled until the call
\* returns or raises, and firecrawl.scrape comes back (with a document or an
\* exception).  Nothing obliges a client to begin a call.
RunningStep == \E p \in Clients : StoreStep(p) \/ CrawlStep(p)

FairSeqSpec == SeqSpec /\ WF_vars(RunningStep)

\* Crawl requests alone, one at a time, for URLs of several sites.
HostBegin(p) ==
    /\ \E url \in HostUrls : crawl_page_url_begin(p, url)
    /\ UNCHANGED calls

HostNext ==
    \/ Tick
    \/ \E p \in Clients : Quiescent /\ HostBegin(p)
    \/ \E p \in Clients : StoreStep(p)
    \/ \E p \in Clients : CrawlStep(p)

HostSpec == Init /\ [][HostNext]_vars

\* The store driven directly through its public methods, with any arguments.
Titles == {None, "T"}
Contents == {"# Title"}
PageIds == 1..2
Outcomes == {"success", "failure"}

StoreBegin(p) ==
    /\ calls < MaxCalls
    /\ calls' = calls + 1
    /\ \/ \E domain \in DomainNames : add_domain_begin(p, domain)
       \/ \E url \in SiteUrls, domain \in DomainNames : add_page_begin(p, url, domain)
       \/ \E url \in SiteUrls, status \in CrawlStatus :
               update_page_status_begin(p, url, status)
       \/ \E url \in SiteUrls, markdown \in Contents, title \in Titles :
               save_page_content_begin(p, url, markdown, title)
       \/ \E page_id \in PageIds, status \in Outcomes :
               add_crawl_history_call(p, page_id, status)

StoreNext ==
    \/ Tick
    \/ \E p \in Clients : StoreBegin(p)
    \/ \E p \in Clients : StoreStep(p)

StoreSpec == Init /\ [][StoreNext]_vars

\* The store written and read through its public methods.
ListedDomains == DomainNames \cup {<<"c">>}
PerPages == {1, 2}

\* One query of a running get_stats.
StatsStep(p) ==
    \/ get_stats_total_pages(p)
    \/ get_stats_queued(p)
    \/ get_stats_crawling(p)
    \/ get_stats_completed(p)
    \/ get_stats_failed(p)
    \/ get_stats_total_domains(p)

\* One statement of a running read method.
ReadStep(p) ==
    \/ StatsStep(p)
    \/ get_all_domains_count(p)
    \/ get_all_domains_select(p)
    \/ get_crawl_history_select(p)
    \/ get_crawl_history_sorted(p)

WriteBegin(p) ==
    /\ calls < MaxCalls
    /\ calls' = calls + 1
    /\ \/ \E domain \in ListedDomains : add_domain_begin(p, domain)
       \/ \E url \in SiteUrls : add_page_begin(p, url, get_url_domain(url))
       \/ \E url \in SiteUrls, status \in CrawlStatus :
               update_page_status_begin(p, url, status)
       \/ \E url \in SiteUrls, markdown \in Contents :
               save_page_content_begin(p, url, markdown, None)
       \/ \E page_id \in PageIds, status \in Outcomes :
               add_crawl_history_call(p, page_id, status)

ReadBegin(p) ==
    /\ \/ get_stats_begin(p)
       \/ \E page \in 1..MaxPage, per_page \in PerPages :
               get_all_domains_begin(p, page, per_page)
       \/ \E page \in 1..MaxPage : get_collected_domains(p, page)
       \/ \E url \in SiteUrls : get_crawl_history_begin(p, url)
    /\ UNCHANGED calls

\* The calls of the store, one at a time.
SeqQueryNext ==
    \/ Tick
    \/ \E p \in Clients : Quiescent /\ WriteBegin(p)
    \/ \E p \in Clients : Quiescent /\ ReadBegin(p)
    \/ \E p \in Clients : StoreStep(p)
    \/ \E p \in Clients : ReadStep(p)

SeqQuerySpec == Init /\ [][SeqQueryNext]_vars

\* get_stats of one client while another client creates pages and changes
\* their status.
PageWriteBegin(p) ==
    /\ calls < MaxCalls
    /\ calls' = calls + 1
    /\ \/ \E url \in SiteUrls : add_page_begin(p, url, get_url_domain(url))
       \/ \E url \in SiteUrls, status \in CrawlStatus :
               update_page_status_begin(p, url, status)
       \/ \E url \in SiteUrls, markdown \in Contents :
               save_page_content_begin(p, url, markdown, None)

StatsBegin(p) == get_stats_begin(p) /\ UNCHANGED calls

StatsNext ==
    \/ Tick
    \/ \E p \in Clients : PageWriteBegin(p)
    \/ \E p \in Clients : StatsBegin(p)
    \/ \E p \in Clients : StoreStep(p)
    \/ \E p \in Clients : StatsStep(p)

StatsSpec == Init /\ [][StatsNext]_vars

\* save_page_content of one client while another client sets the status of
\* the page.  Registering a page is free; the other writes are counted.
SaveBegin(p) ==
    \/ /\ \E url \in SiteUrls : add_page_begin(p, url, get_url_domain(url))
       /\ UNCHANGED calls
    \/ /\ calls < MaxCalls
       /\ calls' = calls + 1
       /\ \/ \E url \in SiteUrls, status \in CrawlStatus :
                 update_page_status_begin(p, url, status)
          \/ \E url \in SiteUrls, markdown \in Contents, title \in Titles :
                 save_page_content_begin(p, url, markdown, title)

SaveNext ==
    \/ Tick
    \/ \E p \in Clients : SaveBegin(p)
    \/ \E p \in Clients : StoreStep(p)

SaveSpec == Init /\ [][SaveNext]_vars

\* The Ingredient Service under its POST /ingredients requests.
IngredientNext ==
    \/ \E p \in Clients, ingredient_in \in IngredientIn :
            create_ingredient_api(p, ingredient_in)
    \/ \E p \in Clients : create_ingredient_existing(p)
    \/ \E p \in Clients : create_ingredient_tags(p)
    \/ \E p \in Clients : create_ingredient_commit(p)

IngredientSpec == Init /\ [][IngredientNext]_vars

----------------------------------------------------------------------------
(* Properties *)

CrawlEnded == last.call.fn = "crawl_page_url"
Bottom(p) == stack[p][1]
InCall(p, fn) == \E i \in 1..Len(stack[p]) : stack[p][i].fn = fn

C2_AtMostOnceFetchAnyInterleaving == \A u \in Urls : fetches[u] <= 1

\* C3: add_domain called twice for one name, in sequence or interleaved,
\* leaves exactly one row of that name and both calls return that row.
C3_IdempotentAddDomain ==
    /\ \A d1, d2 \in domains : d1.domain = d2.domain => d1 = d2
    /\ (last.call.fn = "add_domain" /\ last.kind # "none") =>
         /\ last.kind = "return"
         /\ last.val # {}
         /\ last.val = SelectDomain(last.call.domain)

\* C4: the crawl_page_url call that loses an insert race surfaces no
\* uniqueness fault (IntegrityError) to its caller.
C4_RaceLoserSeesNoUniquenessFault ==
    CrawlEnded => last.exc # "IntegrityError"

\* C5: add_page is idempotent per URL: a page it creates starts QUEUED, no
\* two rows share a URL, a call for a registered URL returns the existing
\* row, and no statement of add_page changes a row that exists (a status
\* that has advanced is never put back to QUEUED).
C5_Inv ==
    /\ \A pg1, pg2 \in pages : pg1.url = pg2.url => pg1 = pg2
    /\ (last.call.fn = "add_page" /\ last.kind = "return") =>
         /\ last.val # {}
         /\ \A r \in last.val : r.url = last.call.url
         /\ {r.id : r \in last.val} = {pg.id : pg \in SelectPage(last.call.url)}

C5_Step ==
    \A p \in Clients :
        (~Idle(p) /\ InCall(p, "add_page") /\ stack'[p] # stack[p]) =>
            /\ \A pg \in pages : pg \in pages'
            /\ \A pg \in pages' \ pages :
                 pg.status = QUEUED /\ pg.url = Bottom(p).url

C5_AddPageIdempotent == [](C5_Inv) /\ [][C5_Step]_vars

C5_Witness ==
    /\ last.call.fn = "add_page" /\ last.kind = "return"
    /\ \E r \in last.val : r.status \in {CRAWLING, COMPLETED, FAILED}
    /\ \E pg \in SelectPage(last.call.url) : pg.status # QUEUED

\* C6: crawl_page_url on a URL without a scheme or without a host raises
\* ValueError at once and changes no Domain, Page or CrawlHistory row.
C6_Inv ==
    /\ \A p \in Clients :
         (~Idle(p) /\ Bottom(p).fn = "crawl_page_url")
            => Bottom(p).url \notin MalformedUrls
    /\ \A u \in MalformedUrls : SelectPage(u) = {} /\ fetches[u] = 0
    /\ (CrawlEnded /\ last.call.url \in MalformedUrls) =>
         last.kind = "raise" /\ last.exc = "ValueError"

C6_Step ==
    (last' # last /\ last'.call.fn = "crawl_page_url"
        /\ last'.call.url \in MalformedUrls) => store' = store

C7_SuccessfulCrawl ==
    (CrawlEnded /\ last.call.scrape = "returned"
        /\ last.call.markdown \notin {None, ""}) =>
        /\ last.kind = "return"
        /\ \E pg \in SelectPage(last.call.url) :
             /\ pg.status = COMPLETED
             /\ pg.content_markdown = last.call.markdown
             /\ last.val = {[content_markdown |-> last.call.markdown,
                             updated_at |-> pg.updated_at]}

C7_Witness ==
    /\ CrawlEnded /\ last.kind = "return" /\ last.call.scrape = "returned"
    /\ \E pg \in SelectPage(last.call.url) : pg.status = COMPLETED

\* C8: when the backend returns empty or absent content for a new valid URL,
\* crawl_page_url raises RuntimeError, the page is FAILED when the error
\* reaches the caller, and a FAILED page stays FAILED.
C8_Inv ==
    (CrawlEnded /\ last.call.scrape = "returned"
        /\ last.call.markdown \in {None, ""}) =>
        /\ last.kind = "raise"
        /\ last.exc = "RuntimeError"
        /\ \E pg \in SelectPage(last.call.url) : pg.status = FAILED

C8_Step ==
    \A pg \in pages :
        pg.status = FAILED =>
            \E pg2 \in pages' : pg2.url = pg.url /\ pg2.status = FAILED

C8_FailedCrawl == [](C8_Inv) /\ [][C8_Step]_vars

C8_Witness ==
    /\ CrawlEnded /\ last.exc = "RuntimeError" /\ last.call.markdown = ""
    /\ \E pg \in SelectPage(last.call.url) : pg.status = FAILED

\* C9: when firecrawl.scrape raises, the page registered for the URL ends
\* FAILED.
C9_TransportFaultMarksFailed ==
    (CrawlEnded /\ last.call.scrape = "raised") =>
        \E pg \in SelectPage(last.call.url) : pg.status = FAILED

\* C10: between calls, each page has as many CrawlHistory rows as fetch
\* attempts were made for its URL.
C10_OneHistoryRowPerAttempt ==
    Quiescent =>
        \A pg \in pages :
            Cardinality({h \in crawl_history : h.page_id = pg.id}) = fetches[pg.url]

\* C11: while a fetch for a URL is in flight (firecrawl.scrape has been
\* called and has not come back), the page of that URL is CRAWLING.
C11_CrawlingWhileFetchInFlight ==
    \A p \in Clients :
        Running(p, "crawl_page_url", "L68_wait") =>
            \E pg \in SelectPage(Top(p).url) : pg.status = CRAWLING

\* C16: crawl_page_url on a URL that is already registered returns a page
\* view, also when the page has no content (QUEUED, CRAWLING or FAILED); it
\* does not raise.
C16_RegisteredUrlReturnsView ==
    (CrawlEnded /\ last.call.gate) => last.kind = "return"

\* C18: update_page_status never raises; on a URL without a page it changes
\* no row of any table; on an existing page it changes nothing but the
\* status and updated_at of the page with that URL.
C18_Inv ==
    (last.call.fn = "update_page_status" /\ last.kind # "none") =>
        last.kind = "return" /\ last.val = {}

C18_Frame(pg, url) ==
    IF pg.url = url THEN [pg EXCEPT !.status = None, !.updated_at = None] ELSE pg

C18_Step ==
    \A p \in Clients :
        (~Idle(p) /\ Top(p).fn = "update_page_status" /\ stack'[p] # stack[p]) =>
            /\ domains' = domains
            /\ crawl_history' = crawl_history
            /\ SelectPage(Top(p).url) = {} => pages' = pages
            /\ Cardinality(pages') = Cardinality(pages)
            /\ {C18_Frame(pg, Top(p).url) : pg \in pages'}
                  = {C18_Frame(pg, Top(p).url) : pg \in pages}

C18_SetStatusFrame == [](C18_Inv) /\ [][C18_Step]_vars

C18_Witness ==
    /\ last.call.fn = "update_page_status" /\ last.kind = "return"
    /\ SelectPage(last.call.url) = {}
    /\ pages # {}

\* C19: every registered page eventually reaches COMPLETED or FAILED (a page
\* left in a non-terminal status is re-marked by a reconciliation sweep).
C19_EveryPageEventuallyTerminal ==
    \A u \in ValidUrls :
        (SelectPage(u) # {}) ~>
            (\E pg \in SelectPage(u) : pg.status \in {COMPLETED, FAILED})

\* C17: between crawl_page_url calls the store holds one Page row for each
\* valid URL requested and one Domain row for each distinct host of those
\* URLs, and each page references the Domain row of its own host.
\* The host of a URL is its authority without the port.
HostOf(url) ==
    LET netloc == urlparse(url).netloc
        i == Find(netloc, ":", 1)
    IN IF i = 0 THEN netloc ELSE SubSeq(netloc, 1, i - 1)

C17_PagePerUrl ==
    /\ \A pg1, pg2 \in pages : pg1.url = pg2.url => pg1 = pg2
    /\ (CrawlEnded /\ last.call.url \in ValidUrls) => SelectPage(last.call.url) # {}
    /\ \A pg \in pages :
         \E d \in domains : d.id = pg.domain_id /\ d.domain = get_url_domain(pg.url)

C17_OnePagePerUrlOneDomainPerHost ==
    Quiescent =>
        /\ C17_PagePerUrl
        /\ Cardinality(domains) = Cardinality({HostOf(pg.url) : pg \in pages})
        /\ \A pg1, pg2 \in pages :
             HostOf(pg1.url) = HostOf(pg2.url) => pg1.domain_id = pg2.domain_id

\* C12: with N stored domains and per_page = k > 0, get_all_domains(p, k)
\* reports total = N and total_pages = ceil(N / k) (0 when N = 0), and for
\* 1 <= p <= ceil(N / k) returns min(k, max(0, N - (p - 1) k)) domains, which
\* are the rows ranked (p - 1) k + 1 onwards by creation time, newest first.
C12_Pagination ==
    (last.call.fn = "get_all_domains" /\ last.kind = "return") =>
        LET N == Cardinality(domains)
            k == last.call.per_page
            pg == last.call.page
            pagesOfN == CHOOSE m \in 0..N : m * k >= N /\ (m = 0 \/ (m - 1) * k < N)
            rest == IF N - (pg - 1) * k > 0 THEN N - (pg - 1) * k ELSE 0
            got == last.val.domains
        IN /\ last.val.total = N
           /\ last.val.total_pages = pagesOfN
           /\ (1 <= pg /\ pg <= pagesOfN) =>
                /\ Len(got) = IF k < rest THEN k ELSE rest
                /\ \A i \in 1..Len(got) :
                     /\ got[i] \in domains
                     /\ \A j \in 1..Len(got) : i < j =>
                          got[i] # got[j] /\ got[i].created_at >= got[j].created_at
                     /\ Cardinality({d \in domains : d.created_at > got[i].created_at})
                          < (pg - 1) * k + i
                     /\ Cardinality({d \in domains : d.created_at >= got[i].created_at})
                          >= (pg - 1) * k + i

C12_Witness ==
    /\ last.call.fn = "get_all_domains" /\ last.kind = "return"
    /\ Cardinality(domains) = 3
    /\ \E d1, d2 \in domains : d1.created_at # d2.created_at
    /\ last.call.per_page = 2 /\ last.call.page = 2
    /\ Len(last.val.domains) = 1

StatsReturned == last.call.fn = "get_stats" /\ last.kind = "return"

\* C13: a get_stats call made while no write is in progress returns
\* queued + crawling + completed + failed = total_pages = the number of Page
\* rows, each count being the number of pages in that status, and
\* total_domains = the number of Domain rows.
C13_StatsConsistentWhenQuiescent ==
    StatsReturned =>
        /\ last.val.queued + last.val.crawling + last.val.completed + last.val.failed
              = last.val.total_pages
        /\ last.val.total_pages = Cardinality(pages)
        /\ last.val.queued = CountStatus(QUEUED)
        /\ last.val.crawling = CountStatus(CRAWLING)
        /\ last.val.completed = CountStatus(COMPLETED)
        /\ last.val.failed = CountStatus(FAILED)
        /\ last.val.total_domains = Cardinality(domains)

C13_Witness ==
    /\ StatsReturned
    /\ last.val.total_pages = 2
    /\ last.val.queued = 1
    /\ last.val.failed = 1
    /\ last.val.total_domains = 1

\* C14: a get_stats call that runs while pages are created and statuses
\* change returns counts of one store state: the four status counts add up
\* to the total_pages it returns.
C14_StatsFromOneSnapshot ==
    StatsReturned =>
        last.val.queued + last.val.crawling + last.val.completed + last.val.failed
            = last.val.total_pages

\* C15: get_crawl_history(url) returns exactly the CrawlHistory rows of the
\* page with that URL, newest crawled_at first, and the empty list when the
\* URL has no page.
C15_HistoryNewestFirst ==
    (last.call.fn = "get_crawl_history" /\ last.kind = "return") =>
        LET page == SelectPage(last.call.url)
            rows == {h \in crawl_history : \E pg \in page : h.page_id = pg.id}
            got == last.val
        IN /\ page = {} => got = <<>>
           /\ Len(got) = Cardinality(rows)
           /\ {got[i] : i \in 1..Len(got)} = rows
           /\ \A i, j \in 1..Len(got) :
                i < j => got[i].crawled_at >= got[j].crawled_at

C15_Witness ==
    /\ last.call.fn = "get_crawl_history" /\ last.kind = "return"
    /\ Len(last.val) = 2
    /\ last.val[1].crawled_at > last.val[2].crawled_at

\* C20: create_ingredient keeps names unique: no two stored ingredients share
\* a name, and a request that does not create its ingredient (the name is
\* stored, or another request stored it first) ends with ValueError, which
\* the API answers with HTTP 409, and with no other fault.
C20_CreateIngredientUnique ==
    /\ \A i1, i2 \in ingredient :
         i1.ingredient_name = i2.ingredient_name => i1 = i2
    /\ (last.call.fn = "create_ingredient_api" /\ last.kind = "raise") =>
         last.exc = "HTTP_409_CONFLICT"

\* C21: every change of a page's status is a legal transition:
\* QUEUED -> CRAWLING, CRAWLING -> COMPLETED, CRAWLING -> FAILED,
\* COMPLETED -> CRAWLING or FAILED -> CRAWLING.
LegalTransitions ==
    {<<QUEUED, CRAWLING>>, <<CRAWLING, COMPLETED>>, <<CRAWLING, FAILED>>,
     <<COMPLETED, CRAWLING>>, <<FAILED, CRAWLING>>}

C21_Step ==
    \A pg \in pages : \A pg2 \in pages' :
        (pg2.id = pg.id /\ pg2.status # pg.status) =>
            <<pg.status, pg2.status>> \in LegalTransitions

C21_OnlyLegalTransitions == [][C21_Step]_vars

\* C22: in every state reached through crawl_page_url calls, a page has
\* stored content exactly when it is COMPLETED, and that content is not
\* empty.
C22_ContentIffCompleted ==
    \A pg \in pages :
        /\ pg.content_markdown # None <=> pg.status = COMPLETED
        /\ pg.status = COMPLETED => pg.content_markdown # ""

\* C23: between calls a page's status reflects its newest CrawlHistory row:
\* the page is COMPLETED exactly when that row records a success, FAILED
\* exactly when it records a failure, and a COMPLETED or FAILED page has at
\* least one row.
NewestHistory(pg) ==
    {h \in crawl_history :
        /\ h.page_id = pg.id
        /\ \A h2 \in crawl_history : h2.page_id = pg.id => h2.id <= h.id}

C23_StatusReflectsNewestHistory ==
    Quiescent =>
        \A pg \in pages :
            /\ pg.status = COMPLETED <=> \E h \in NewestHistory(pg) : h.status = "success"
            /\ pg.status = FAILED <=> \E h \in NewestHistory(pg) : h.status = "failure"

\* C24: save_page_content writes the content and status COMPLETED in one
\* step: the step that writes leaves the page with the content given and
\* with status COMPLETED (no reader sees the new content under another
\* status), no other step of the call changes a row, and on a URL without a
\* page the call changes nothing.
C24_Step ==
    \A p \in Clients :
        (~Idle(p) /\ Top(p).fn = "save_page_content" /\ stack'[p] # stack[p]) =>
            /\ Top(p).pc = "L168" => store' = store
            /\ Top(p).pc = "L171" =>
                 \E pg \in pages' :
                    /\ pg.url = Top(p).url
                    /\ pg.content_markdown = Top(p).markdown
                    /\ pg.status = COMPLETED

C24_SaveContentAtomic == [][C24_Step]_vars

\* C25: CrawlHistory is append-only: a row that exists stays, with the same
\* field values, in every later state, and rows are added by
\* add_crawl_history alone, one per call.
C25_Step ==
    /\ crawl_history \subseteq crawl_history'
    /\ crawl_history' # crawl_history =>
         /\ last'.call.fn = "add_crawl_history"
         /\ Cardinality(crawl_history') = Cardinality(crawl_history) + 1

C25_HistoryAppendOnly == [][C25_Step]_vars

C25_Witness ==
    /\ Cardinality(crawl_history) = 2
    /\ \E h1, h2 \in crawl_history : h1.page_id = h2.page_id /\ h1.id # h2.id
    /\ last.call.fn = "save_page_content" /\ last.kind = "return"

\* C26: referential integrity: every page's domain_id is the id of a Domain
\* row and every CrawlHistory row's page_id is the id of a Page row.
C26_ReferentialIntegrity ==
    /\ \A pg \in pages : \E d \in domains : d.id = pg.domain_id
    /\ \A h \in crawl_history : \E pg \in pages : pg.id = h.page_id

\* C27: store writes are local to their key: a step of update_page_status(u)
\* or save_page_content(u) changes no page with a URL other than u, no Domain
\* row and no CrawlHistory row; add_page for a URL that is registered returns
\* at its lookup and changes nothing (it creates no Domain row, even for a
\* domain name that is new).
C27_Step ==
    \A p \in Clients :
        (~Idle(p) /\ stack'[p] # stack[p]) =>
            /\ Top(p).fn \in {"update_page_status", "save_page_content"} =>
                 /\ domains' = domains
                 /\ crawl_history' = crawl_history
                 /\ Cardinality(pages') = Cardinality(pages)
                 /\ \A pg \in pages : pg.url # Top(p).url => pg \in pages'
            /\ (Running(p, "add_page", "L141") /\ SelectPage(Top(p).url) # {}) =>
                 /\ store' = store
                 /\ Len(stack'[p]) < Len(stack[p])

C27_WritesLocalToKey == [][C27_Step]_vars

C27_Witness ==
    /\ last.call.fn = "add_page" /\ last.kind = "return"
    /\ SelectDomain(last.call.domain) = {}
    /\ \E pg \in pages : pg.url # last.call.url
====
